---- MODULE Spec2Model ----
(***************************************************************************)
(* pyls - list directory contents (src/pyls.py).                           *)
(*                                                                         *)
(* One behaviour of the model is one run of main(): the command line and   *)
(* the clock are drawn in Init, the filesystem is the fixed tree FS, and   *)
(* each action is one step of main().  A text is a sequence of one-        *)
(* character strings; None is the empty option <<>> and a populated field  *)
(* is the one-element sequence <<v>>.                                      *)
(***************************************************************************)
EXTENDS Integers, Sequences, FiniteSets, TLC

VARIABLES args, now, pc, err, i, files, widths, column_count, children, iterated, j, out, rows

vars == <<args, now, pc, err, i, files, widths, column_count, children, iterated, j, out, rows>>

(* Largest number of FILE arguments on a modelled command line. *)
MaxTargets == 2

---------------------------------------------------------------------------
(* Texts *)

None == <<>>

Some(v) == <<v>>

UpperCase == <<"A","B","C","D","E","F","G","H","I","J","K","L","M",
               "N","O","P","Q","R","S","T","U","V","W","X","Y","Z">>

LowerCase == <<"a","b","c","d","e","f","g","h","i","j","k","l","m",
               "n","o","p","q","r","s","t","u","v","w","x","y","z">>

Digits == <<"0","1","2","3","4","5","6","7","8","9">>

(* The characters used, in code point order. *)
Chars == <<" ", "-", ".", "/">> \o Digits \o <<":", ">">> \o UpperCase
         \o <<"[">> \o LowerCase

Ord(c) == CHOOSE k \in 1..Len(Chars) : Chars[k] = c

(* str.lower() on one character *)
LowerChar(c) ==
  IF \E k \in 1..26 : UpperCase[k] = c
  THEN LowerCase[CHOOSE k \in 1..26 : UpperCase[k] = c]
  ELSE c

(* str.lower() *)
Lower(s) == [k \in 1..Len(s) |-> LowerChar(s[k])]

RECURSIVE LStrip(_, _)
(* str.lstrip(c) *)
LStrip(s, c) == IF s # <<>> /\ Head(s) = c THEN LStrip(Tail(s), c) ELSE s

RECURSIVE RStrip(_, _)
(* str.rstrip(c) *)
RStrip(s, c) ==
  IF s # <<>> /\ s[Len(s)] = c THEN RStrip(SubSeq(s, 1, Len(s) - 1), c) ELSE s

(* str.strip(c): removes the character from both ends *)
Strip(s, c) == RStrip(LStrip(s, c), c)

RECURSIVE StrLess(_, _)
(* a < b on str: lexicographic by code point *)
StrLess(a, b) ==
  IF b = <<>> THEN FALSE
  ELSE IF a = <<>> THEN TRUE
  ELSE IF Head(a) # Head(b) THEN Ord(Head(a)) < Ord(Head(b))
  ELSE StrLess(Tail(a), Tail(b))

Spaces(n) == [k \in 1..n |-> " "]

(* str.rjust(width) *)
RJust(s, width) == IF Len(s) >= width THEN s ELSE Spaces(width - Len(s)) \o s

(* str.ljust(width) *)
LJust(s, width) == IF Len(s) >= width THEN s ELSE s \o Spaces(width - Len(s))

RECURSIVE IntStr(_)
(* str(n) for n >= 0 *)
IntStr(n) == IF n < 10 THEN <<Digits[n + 1]>>
             ELSE IntStr(n \div 10) \o <<Digits[(n % 10) + 1]>>

(* str(x) of a field that is an int or None *)
PyStr(opt) == IF opt = None THEN <<"N","o","n","e">> ELSE IntStr(opt[1])

(* "%02d" *)
TwoDigits(n) == <<Digits[(n \div 10) + 1], Digits[(n % 10) + 1]>>

RECURSIVE Join(_, _)
(* sep.join(parts) *)
Join(parts, sep) ==
  IF parts = <<>> THEN <<>>
  ELSE IF Len(parts) = 1 THEN parts[1]
  ELSE parts[1] \o sep \o Join(Tail(parts), sep)

RECURSIVE MaxLen(_)
(* len(max(texts, key=len)) for a non-empty list of texts *)
MaxLen(texts) ==
  IF Len(texts) = 1 THEN Len(texts[1])
  ELSE LET m == MaxLen(Tail(texts))
       IN IF Len(texts[1]) >= m THEN Len(texts[1]) ELSE m

---------------------------------------------------------------------------
(* Calendar: datetime.fromtimestamp, local time taken as UTC *)

(* The civil date of a day number counted from 1970-01-01. *)
CivilFromDays(days) ==
  LET z   == days + 719468
      era == z \div 146097
      doe == z - era * 146097
      yoe == (doe - doe \div 1460 + doe \div 36524 - doe \div 146096) \div 365
      doy == doe - (365 * yoe + yoe \div 4 - yoe \div 100)
      mp  == (5 * doy + 2) \div 153
      d   == doy - (153 * mp + 2) \div 5 + 1
      m   == IF mp < 10 THEN mp + 3 ELSE mp - 9
      y   == yoe + era * 400 + (IF m <= 2 THEN 1 ELSE 0)
  IN [year |-> y, month |-> m, day |-> d]

(* datetime.datetime.fromtimestamp(ts) *)
FromTimestamp(ts) ==
  LET date == CivilFromDays(ts \div 86400)
      secs == ts % 86400
  IN [year |-> date.year, month |-> date.month, day |-> date.day,
      hour |-> secs \div 3600, minute |-> (secs % 3600) \div 60]

(* strftime("%b") *)
MonthAbbr == << <<"J","a","n">>, <<"F","e","b">>, <<"M","a","r">>,
                <<"A","p","r">>, <<"M","a","y">>, <<"J","u","n">>,
                <<"J","u","l">>, <<"A","u","g">>, <<"S","e","p">>,
                <<"O","c","t">>, <<"N","o","v">>, <<"D","e","c">> >>

(* strftime("%b %d") *)
StrfMonthDay(dt) == MonthAbbr[dt.month] \o <<" ">> \o TwoDigits(dt.day)

(* strftime("%b %d %H:%M") *)
StrfMonthDayTime(dt) ==
  StrfMonthDay(dt) \o <<" ">> \o TwoDigits(dt.hour) \o <<":">> \o TwoDigits(dt.minute)

(* The timestamp field with the year comparison left out: always the clock. *)
FormatTimestampAlwaysClock(mtime, this_year) == StrfMonthDayTime(FromTimestamp(mtime))

(* The timestamp field of a long-format row when today's year is this_year. *)
FormatTimestamp(mtime, this_year) ==
  LET file_year == FromTimestamp(mtime).year
  IN IF file_year = this_year
     THEN StrfMonthDayTime(FromTimestamp(mtime))
     ELSE StrfMonthDay(FromTimestamp(mtime)) \o <<" ">> \o RJust(IntStr(file_year), 5)

---------------------------------------------------------------------------
(* The filesystem the run reads (lstat, iterdir, resolve, pwd, grp) *)

Entry(name, mode, nlink, uid, gid, size, mtime, kids, target) ==
  [name |-> name, st_mode |-> mode, st_nlink |-> nlink, st_uid |-> uid,
   st_gid |-> gid, st_size |-> size, st_mtime |-> mtime, kids |-> kids,
   resolved |-> target]

(* path -> what lstat() reports for it; a path outside the domain does not *)
(* exist.                                                                  *)
FS ==
  ( "d1" :> Entry(<<"d","1">>, 16877, 2, 0, 0, 4096, 1793610300,
                  {"d1/a.txt", "d1/.hidden", "d1/Big.log"}, <<>>) )
  @@ ( "d1/a.txt" :> Entry(<<"a",".","t","x","t">>, 33188, 1, 0, 0, 10,
                           1793610300, {}, <<>>) )
  @@ ( "d1/.hidden" :> Entry(<<".","h","i","d","d","e","n">>, 33188, 1, 0, 0, 5,
                             1767225600, {}, <<>>) )
  @@ ( "d1/Big.log" :> Entry(<<"B","i","g",".","l","o","g">>, 33188, 1, 1000, 100,
                             1000, 1546698600, {}, <<>>) )
  @@ ( "d2" :> Entry(<<"d","2">>, 17407, 3, 0, 0, 4096, 1546698600,
                     {"d2/a.", "d2/a", "d2/B", "d2/latest"}, <<>>) )
  @@ ( "d2/a." :> Entry(<<"a",".">>, 35309, 1, 0, 0, 7, 1767225540, {}, <<>>) )
  @@ ( "d2/a" :> Entry(<<"a">>, 33188, 12, 1000, 100, 12345, 1559390400, {}, <<>>) )
  @@ ( "d2/B" :> Entry(<<"B">>, 16877, 3, 1000, 0, 4096, 1793610300, {}, <<>>) )
  @@ ( "d2/latest" :> Entry(<<"l","a","t","e","s","t">>, 41471, 1, 0, 0, 8,
                            1546698600, {},
                            <<"/","d","a","t","a","/","v","3">>) )
  @@ ( "e" :> Entry(<<"e">>, 16877, 2, 0, 0, 4096, 1793610300, {"e/.x"}, <<>>) )
  @@ ( "e/.x" :> Entry(<<".","x">>, 33188, 1, 1234, 0, 0, 1793610300, {}, <<>>) )
  @@ ( "f" :> Entry(<<"f">>, 33188, 1, 0, 0, 3, 1793610300, {}, <<>>) )

(* The paths a command line can name; "nope" does not exist. *)
Targets == {"d1", "d2", "e", "f", "nope"}

(* The terminal widths shutil.get_terminal_size() can report. *)
Columns == {9, 80}

(* The instants the run can start at (2026-11-02 09:05, 2019-06-01 12:00). *)
Clock == {1793610300, 1559390400}

(* pwd.getpwuid(uid)[0]; None stands for KeyError *)
Getpwuid(uid) ==
  CASE uid = 0 -> Some(<<"r","o","o","t">>)
    [] uid = 1000 -> Some(<<"l","e","f","t","y">>)
    [] OTHER -> None

(* grp.getgrgid(gid)[0]; None stands for KeyError *)
Getgrgid(gid) ==
  CASE gid = 0 -> Some(<<"r","o","o","t">>)
    [] gid = 100 -> Some(<<"u","s","e","r","s">>)
    [] OTHER -> None

---------------------------------------------------------------------------
(* FileType and FileInfo *)

(* The file type bits of st_mode (S_IFMT), as a number 0..15. *)
IFMT(mode) == (mode \div 4096) % 16

(* mode & bit == bit for a single permission bit *)
Bit(mode, bit) == (mode \div bit) % 2 = 1

(* FileType.get_file_type: the first member, in declaration order, whose *)
(* stat.S_IS<name> predicate holds; the lookup of S_ISUNKNOWN raises.    *)
get_file_type(mode) ==
  CASE IFMT(mode) = 4 -> "DIR"
    [] IFMT(mode) = 8 -> "REG"
    [] IFMT(mode) = 10 -> "LNK"
    [] IFMT(mode) = 12 -> "SOCK"
    [] IFMT(mode) = 1 -> "FIFO"
    [] IFMT(mode) = 6 -> "BLK"
    [] IFMT(mode) = 2 -> "CHR"
    [] OTHER -> "AttributeError"

(* stat.filemode(mode) *)
filemode(mode) ==
  LET type == CASE IFMT(mode) = 10 -> "l"
                [] IFMT(mode) = 12 -> "s"
                [] IFMT(mode) = 8 -> "-"
                [] IFMT(mode) = 6 -> "b"
                [] IFMT(mode) = 4 -> "d"
                [] IFMT(mode) = 2 -> "c"
                [] IFMT(mode) = 1 -> "p"
                [] OTHER -> "?"
      rw(bit, c) == IF Bit(mode, bit) THEN c ELSE "-"
      x(bit, special, lo, up) ==
        IF Bit(mode, bit) /\ Bit(mode, special) THEN lo
        ELSE IF Bit(mode, special) THEN up
        ELSE IF Bit(mode, bit) THEN "x" ELSE "-"
  IN <<type, rw(256, "r"), rw(128, "w"), x(64, 2048, "s", "S"),
       rw(32, "r"), rw(16, "w"), x(8, 1024, "s", "S"),
       rw(4, "r"), rw(2, "w"), x(1, 512, "t", "T")>>

(* FileInfo.__init__ for an existing path *)
FileInfo(path) ==
  [path |-> path, name |-> FS[path].name,
   file_type |-> get_file_type(FS[path].st_mode),
   filemode_str |-> None, num_links |-> None, size |-> None, mtime |-> None,
   uid |-> None, gid |-> None, owner |-> None, group |-> None]

(* FileInfo.get_long_info: the object after the call; owner or group stays *)
(* None when the lookup raised KeyError.                                    *)
get_long_info(self) ==
  LET st == FS[self.path]
  IN [self EXCEPT !.filemode_str = Some(filemode(st.st_mode)),
                  !.num_links = Some(st.st_nlink),
                  !.size = Some(st.st_size),
                  !.mtime = Some(st.st_mtime),
                  !.uid = Some(st.st_uid),
                  !.gid = Some(st.st_gid),
                  !.owner = Getpwuid(st.st_uid),
                  !.group = IF Getpwuid(st.st_uid) = None THEN self.group
                            ELSE Getgrgid(st.st_gid)]

(* get_long_info ran to its end *)
LongInfoOk(info) == info.owner # None /\ info.group # None

(* The list params of get_long_str for an object get_long_info has filled. *)
LongParams(info, link_width, owner_width, group_width, size_width, today) ==
  LET link_padded  == RJust(PyStr(info.num_links), link_width)
      owner_padded == RJust(info.owner[1], owner_width)
      group_padded == RJust(info.group[1], group_width)
      size_padded  == RJust(PyStr(info.size), size_width)
      bold == IF info.file_type = "DIR"
              THEN <<"ESC","[","1","m">> \o <<"ESC","[","9","4","m">> \o info.name
                   \o <<"ESC","[","0","m">>
              ELSE info.name
      name == IF info.file_type = "LNK"
              THEN bold \o <<" ","-",">"," ">> \o FS[info.path].resolved
              ELSE bold
      timestamp == FormatTimestamp(info.mtime[1], FromTimestamp(today).year)
  IN <<info.filemode_str[1], link_padded, owner_padded, group_padded,
       size_padded, timestamp, name>>

(* FileInfo.get_long_str: the line returned *)
get_long_str(info, link_width, owner_width, group_width, size_width, today) ==
  Join(LongParams(info, link_width, owner_width, group_width, size_width, today),
       <<" ">>)

(* FileInfo.get_children when iterdir() yields the paths of order *)
get_children(order, include_hidden) ==
  LET shown(p) == include_hidden \/ ~(FS[p].name # <<>> /\ Head(FS[p].name) = ".")
      kept == SelectSeq(order, shown)
  IN [k \in 1..Len(kept) |-> FileInfo(kept[k])]

(* The orders iterdir() can yield the members of a directory in. *)
IterDir(path) ==
  LET kids == FS[path].kids
      n == Cardinality(kids)
  IN { s \in [1..n -> kids] : \A a, b \in 1..n : a # b => s[a] # s[b] }

(* The sort key without the lower(): 'B' sorts before 'a'. *)
SortKeyCaseSensitive(name) == Strip(name, ".")

(* key=lambda child: child.name.lower().strip('.') *)
SortKey(name) == Strip(Lower(name), ".")

RECURSIVE Insert(_, _)
(* child inserted into a sorted list behind every element not greater *)
Insert(sorted, child) ==
  IF sorted = <<>> THEN <<child>>
  ELSE IF StrLess(SortKey(child.name), SortKey(sorted[1].name))
       THEN <<child>> \o sorted
       ELSE <<sorted[1]>> \o Insert(Tail(sorted), child)

RECURSIVE SortChildren(_)
(* children.sort(key=...): stable, ascending by key *)
SortChildren(kids) ==
  IF kids = <<>> THEN <<>>
  ELSE Insert(SortChildren(SubSeq(kids, 1, Len(kids) - 1)), kids[Len(kids)])

---------------------------------------------------------------------------
(* textwrap.fill with the default options, on a text without hyphens *)

IsBlank(chunk) == \A k \in 1..Len(chunk) : chunk[k] = " "

RECURSIVE SplitChunks(_, _)
(* TextWrapper._split after whitespace replacement: the maximal runs of *)
(* blanks and of non-blanks, cur being the run under construction.      *)
SplitChunks(text, cur) ==
  IF text = <<>> THEN (IF cur = <<>> THEN <<>> ELSE <<cur>>)
  ELSE LET c == IF Head(text) = "LF" THEN " " ELSE Head(text)
       IN IF cur = <<>> \/ ((c = " ") <=> (cur[1] = " "))
          THEN SplitChunks(Tail(text), Append(cur, c))
          ELSE <<cur>> \o SplitChunks(Tail(text), <<c>>)

RECURSIVE SumLen(_)
SumLen(chunks) == IF chunks = <<>> THEN 0 ELSE Len(chunks[1]) + SumLen(Tail(chunks))

RECURSIVE WrapChunks(_, _, _)
(* TextWrapper._wrap_chunks: one round of the outer loop per call *)
WrapChunks(chunks, lines, width) ==
  IF chunks = <<>> THEN lines
  ELSE
    LET todo == IF IsBlank(chunks[1]) /\ lines # <<>> THEN Tail(chunks) ELSE chunks
        fits == { k \in 0..Len(todo) : SumLen(SubSeq(todo, 1, k)) <= width }
        n == CHOOSE k \in fits : \A m \in fits : m <= k
        taken == SubSeq(todo, 1, n)
        rest == SubSeq(todo, n + 1, Len(todo))
        long == rest # <<>> /\ Len(rest[1]) > width
        space_left == width - SumLen(taken)
        cur_line == IF long THEN Append(taken, SubSeq(rest[1], 1, space_left))
                    ELSE taken
        left == IF long
                THEN <<SubSeq(rest[1], space_left + 1, Len(rest[1]))>> \o Tail(rest)
                ELSE rest
        kept == IF cur_line # <<>> /\ IsBlank(cur_line[Len(cur_line)])
                THEN SubSeq(cur_line, 1, Len(cur_line) - 1)
                ELSE cur_line
    IN WrapChunks(left, IF kept = <<>> THEN lines ELSE Append(lines, Join(kept, <<>>)),
                  width)

(* textwrap.fill(text, width), as the list of the lines of the result *)
Fill(text, width) == WrapChunks(SplitChunks(text, <<>>), <<>>, width)

(* The lines print() writes for a text: "" is one empty line. *)
PrintedLines(wrapped) == IF wrapped = <<>> THEN << <<>> >> ELSE wrapped

---------------------------------------------------------------------------
(* main() *)

(* The command lines: one to MaxTargets FILE arguments (none given means *)
(* the default '.', a directory like any other), -l and -a.              *)
CommandLines ==
  [files : UNION { [1..n -> Targets] : n \in 1..MaxTargets },
   long : BOOLEAN, all : BOOLEAN]

NoWidths == [links |-> 0, owner |-> 0, group |-> 0, size |-> 0]

Init ==
  /\ args \in CommandLines
  /\ now \in Clock
  /\ pc = "construct"
  /\ err = ""
  /\ i = 1
  /\ files = <<>>
  /\ widths = NoWidths
  /\ column_count = 0
  /\ children = <<>>
  /\ iterated = <<>>
  /\ j = 1
  /\ out = <<>>
  /\ rows = <<>>

(* An exception nobody catches ends the run. *)
Raise(exception) ==
  /\ pc' = "failed"
  /\ err' = exception

(* for file in args.files: files.append(FileInfo(file)) -- one iteration *)
ConstructFile ==
  /\ pc = "construct"
  /\ LET file == args.files[i]
     IN IF file \notin DOMAIN FS
        THEN /\ Raise("FileNotFoundError")
             /\ UNCHANGED <<i, files>>
        ELSE IF FileInfo(file).file_type = "AttributeError"
        THEN /\ Raise("AttributeError")
             /\ UNCHANGED <<i, files>>
        ELSE /\ files' = Append(files, FileInfo(file))
             /\ err' = err
             /\ IF i < Len(args.files)
                THEN /\ i' = i + 1
                     /\ pc' = pc
                ELSE /\ i' = 1
                     /\ pc' = IF args.long THEN "long_info" ELSE "widths"
  /\ UNCHANGED <<args, now, widths, column_count, children, iterated, j, out, rows>>

(* if args.long: for file in files: file.get_long_info() -- one iteration *)
LongInfoTarget ==
  /\ pc = "long_info"
  /\ LET info == get_long_info(files[i])
     IN /\ files' = [files EXCEPT ![i] = info]
        /\ IF ~LongInfoOk(info)
           THEN /\ Raise("KeyError")
                /\ i' = i
           ELSE /\ err' = err
                /\ IF i < Len(files)
                   THEN /\ i' = i + 1
                        /\ pc' = pc
                   ELSE /\ i' = 1
                        /\ pc' = "widths"
  /\ UNCHANGED <<args, now, widths, column_count, children, iterated, j, out, rows>>

(* The four max_*_width assignments: str() accepts None, len() does not. *)
ComputeWidths ==
  /\ pc = "widths"
  /\ IF \E k \in 1..Len(files) : files[k].owner = None \/ files[k].group = None
     THEN /\ Raise("TypeError")
          /\ widths' = widths
     ELSE /\ widths' =
               [links |-> MaxLen([k \in 1..Len(files) |-> PyStr(files[k].num_links)]),
                owner |-> MaxLen([k \in 1..Len(files) |-> files[k].owner[1]]),
                group |-> MaxLen([k \in 1..Len(files) |-> files[k].group[1]]),
                size  |-> MaxLen([k \in 1..Len(files) |-> PyStr(files[k].size)])]
          /\ pc' = "term"
          /\ err' = err
  /\ UNCHANGED <<args, now, i, files, column_count, children, iterated, j, out, rows>>

(* column_count, row_count = shutil.get_terminal_size() *)
GetTerminalSize ==
  /\ pc = "term"
  /\ column_count' \in Columns
  /\ pc' = "list"
  /\ UNCHANGED <<args, now, err, i, files, widths, children, iterated, j, out, rows>>

(* pc and i once the listing of target i is complete *)
NextTarget ==
  /\ i' = i + 1
  /\ pc' = IF i < Len(files) THEN "list" ELSE "done"

(* One iteration of "for file in files": get_children and sort; in short *)
(* format also the padding, the wrapping and the print.                  *)
ListTarget ==
  /\ pc = "list"
  /\ IF files[i].file_type # "DIR"
     THEN /\ Raise("NotADirectoryError")
          /\ UNCHANGED <<i, children, iterated, j, out>>
     ELSE \E order \in IterDir(files[i].path) :
            LET sorted == SortChildren(get_children(order, args.all))
                names == [k \in 1..Len(sorted) |-> sorted[k].name]
            IN /\ iterated' = order
               /\ children' = sorted
               /\ j' = 1
               /\ IF args.long
                  THEN /\ out' = out
                       /\ err' = err
                       /\ IF sorted = <<>>
                          THEN NextTarget
                          ELSE /\ pc' = "print"
                               /\ i' = i
                  ELSE IF sorted = <<>>
                  THEN /\ Raise("ValueError")
                       /\ UNCHANGED <<i, out>>
                  ELSE LET max_filename_len == MaxLen(names)
                           padded_names ==
                             [k \in 1..Len(names) |-> LJust(names[k], max_filename_len)]
                       IN /\ out' = out \o PrintedLines(
                                      Fill(Join(padded_names, <<"LF">>), column_count))
                          /\ err' = err
                          /\ NextTarget
  /\ UNCHANGED <<args, now, files, widths, column_count, rows>>

(* One iteration of "for child in children": get_long_str and print. *)
PrintChild ==
  /\ pc = "print"
  /\ LET info == get_long_info(children[j])
     IN /\ children' = [children EXCEPT ![j] = info]
        /\ IF ~LongInfoOk(info)
           THEN /\ Raise("KeyError")
                /\ UNCHANGED <<i, j, out, rows>>
           ELSE /\ out' = Append(out, get_long_str(info, widths.links, widths.owner,
                                                   widths.group, widths.size, now))
                /\ rows' = Append(rows,
                             [target |-> i, path |-> info.path,
                              params |-> LongParams(info, widths.links, widths.owner,
                                                    widths.group, widths.size, now)])
                /\ err' = err
                /\ IF j < Len(children)
                   THEN /\ j' = j + 1
                        /\ pc' = pc
                        /\ i' = i
                   ELSE /\ j' = j
                        /\ NextTarget
  /\ UNCHANGED <<args, now, files, widths, column_count, iterated>>

Next ==
  \/ ConstructFile
  \/ LongInfoTarget
  \/ ComputeWidths
  \/ GetTerminalSize
  \/ ListTarget
  \/ PrintChild

Spec == Init /\ [][Next]_vars

(* The exit status of a finished run *)
ExitStatus == IF pc = "failed" THEN 1 ELSE 0

TypeOK ==
  /\ pc \in {"construct", "long_info", "widths", "term", "list", "print", "done", "failed"}
  /\ (pc = "failed") <=> (err # "")

---------------------------------------------------------------------------
(* Vocabulary of the properties *)

Finished == pc \in {"done", "failed"}

IsDir(path) == path \in DOMAIN FS /\ get_file_type(FS[path].st_mode) = "DIR"

Hidden(path) == FS[path].name # <<>> /\ Head(FS[path].name) = "."

(* The batch of a directory: its children after hidden-file filtering *)
Batch(path) == { p \in FS[path].kids : args.all \/ ~Hidden(p) }

(* The text of a path given on the command line *)
PathText(path) == IF path \in DOMAIN FS THEN FS[path].name ELSE <<"n","o","p","e">>

RECURSIVE Words(_, _)
(* The blank-separated words of a line, cur being the word under construction *)
Words(line, cur) ==
  IF line = <<>> THEN (IF cur = <<>> THEN <<>> ELSE <<cur>>)
  ELSE IF Head(line) = " "
       THEN (IF cur = <<>> THEN <<>> ELSE <<cur>>) \o Words(Tail(line), <<>>)
       ELSE Words(Tail(line), Append(cur, Head(line)))

RECURSIVE AllWords(_)
AllWords(lines) ==
  IF lines = <<>> THEN <<>> ELSE Words(lines[1], <<>>) \o AllWords(Tail(lines))

Count(seq, x) == Cardinality({ k \in 1..Len(seq) : seq[k] = x })

(* The long-format rows printed for the target at position k, in order *)
RowsOf(k) == LET of_k(r) == r.target = k IN SelectSeq(rows, of_k)

(* The entry names of the rows printed for the target at position k *)
NamesOf(k) == [n \in 1..Len(RowsOf(k)) |-> FS[RowsOf(k)[n].path].name]

IsPrefix(a, b) == Len(a) <= Len(b) /\ a = SubSeq(b, 1, Len(a))

(* The greatest of a non-empty set of numbers *)
Greatest(S) == CHOOSE m \in S : \A n \in S : n <= m

---------------------------------------------------------------------------
(* C1: a run without the long-format flag on directories whose filtered   *)
(* sets of children are non-empty completes, and its output contains the  *)
(* name of every one of those children exactly once per listing.          *)
C1_ShortFormListsEveryName ==
  ( /\ ~args.long
    /\ \A k \in 1..Len(args.files) :
         IsDir(args.files[k]) /\ Batch(args.files[k]) # {} )
  => /\ pc # "failed"
     /\ pc = "done" =>
          \A k \in 1..Len(args.files) : \A p \in Batch(args.files[k]) :
            Count(AllWords(out), FS[p].name) = Count(args.files, args.files[k])

(* C2: every long-format row of a directory has its link-count, owner,    *)
(* group and size fields as wide as the widest such field among the       *)
(* children of that directory (the batch being printed).                  *)
C2_WidthsAreBatchMaxima ==
  \A n \in 1..Len(rows) :
    LET batch == Batch(args.files[rows[n].target])
        field == rows[n].params
    IN /\ Len(field[2]) = Greatest({ Len(IntStr(FS[p].st_nlink)) : p \in batch })
       /\ Len(field[3]) = Greatest({ Len(Getpwuid(FS[p].st_uid)[1]) : p \in batch })
       /\ Len(field[4]) = Greatest({ Len(Getgrgid(FS[p].st_gid)[1]) : p \in batch })
       /\ Len(field[5]) = Greatest({ Len(IntStr(FS[p].st_size)) : p \in batch })

(* The line reported for a target that does not exist *)
NoSuchFile(path) ==
  PathText(path) \o <<":"," ","N","o"," ","s","u","c","h"," ","f","i","l","e"," ",
                      "o","r"," ","d","i","r","e","c","t","o","r","y",".">>

(* C3: a target that does not exist gets the line "<path>: No such file   *)
(* or directory.", every other target is still listed, and the exit       *)
(* status is 0.                                                           *)
C3_MissingTargetIsReported ==
  ( /\ Finished
    /\ \E k \in 1..Len(args.files) : args.files[k] \notin DOMAIN FS )
  => /\ ExitStatus = 0
     /\ \A k \in 1..Len(args.files) :
          /\ args.files[k] \notin DOMAIN FS
               => \E n \in 1..Len(out) : out[n] = NoSuchFile(args.files[k])
          /\ (args.long /\ IsDir(args.files[k]))
               => \A p \in Batch(args.files[k]) :
                    \E m \in 1..Len(RowsOf(k)) : RowsOf(k)[m].path = p

(* C4: a target that exists and is not a directory is echoed and never    *)
(* enumerated, in both formats, and the run goes on without failing.      *)
C4_NonDirectoryIsEchoed ==
  ( /\ Finished
    /\ \A k \in 1..Len(args.files) : args.files[k] \in DOMAIN FS
    /\ \E k \in 1..Len(args.files) : ~IsDir(args.files[k]) )
  => /\ err # "NotADirectoryError"
     /\ pc = "done" =>
          \A k \in 1..Len(args.files) :
            ~IsDir(args.files[k])
              => \E n \in 1..Len(out) : out[n] = PathText(args.files[k])

(* The three entries of the directory d1 *)
NameA == <<"a",".","t","x","t">>

NameHidden == <<".","h","i","d","d","e","n">>

NameBig == <<"B","i","g",".","l","o","g">>

(* The entry names a finished run has output, in order: the names of the  *)
(* rows in long format, the words of the grid in short format.            *)
OutNames ==
  IF args.long THEN [n \in 1..Len(rows) |-> FS[rows[n].path].name]
  ELSE AllWords(out)

LeadingDotKey(name) == LStrip(Lower(name), ".")

(* The position of a path in the order iterdir() yielded *)
IterPos(path) == CHOOSE n \in 1..Len(iterated) : iterated[n] = path

(* C6: the rows of a directory are in ascending order of the name         *)
(* lowercased with its leading dots stripped and nothing else removed,    *)
(* and names with equal keys keep their enumeration order.                *)
C6_OrderedByLeadingDotKey ==
  \A k \in 1..Len(args.files) :
    \A a, b \in 1..Len(NamesOf(k)) :
      a < b =>
        /\ ~StrLess(LeadingDotKey(NamesOf(k)[b]), LeadingDotKey(NamesOf(k)[a]))
        /\ ( /\ \/ k = i /\ pc = "print"
                \/ k = i - 1 /\ pc \in {"list", "done"}
             /\ LeadingDotKey(NamesOf(k)[a]) = LeadingDotKey(NamesOf(k)[b]) )
           => IterPos(RowsOf(k)[a].path) < IterPos(RowsOf(k)[b].path)

(* The year of the clock and of an entry's modification time *)
ThisYear == FromTimestamp(now).year

YearOf(path) == FromTimestamp(FS[path].st_mtime).year

IsDigit(c) == \E d \in 1..10 : Digits[d] = c

(* The character of a one-digit number *)
DigitOf(n) == Digits[n + 1]

(* C7: the timestamp field of a row is 'month day hour:minute' without a  *)
(* year when the modification year is the current year, and otherwise     *)
(* 'month day', a space, and the four-digit year right-justified in five  *)
(* characters, without a clock time.                                      *)
C7_TimestampRule ==
  \A n \in 1..Len(rows) :
    LET ts == rows[n].params[6]
        dt == FromTimestamp(FS[rows[n].path].st_mtime)
        monthday == MonthAbbr[dt.month] \o <<" ", DigitOf(dt.day \div 10),
                                              DigitOf(dt.day % 10)>>
    IN /\ Len(ts) = 12
       /\ SubSeq(ts, 1, 6) = monthday
       /\ ts[7] = " "
       /\ IF dt.year = ThisYear
          THEN SubSeq(ts, 8, 12) =
                 <<DigitOf(dt.hour \div 10), DigitOf(dt.hour % 10), ":",
                   DigitOf(dt.minute \div 10), DigitOf(dt.minute % 10)>>
          ELSE /\ ts[8] = " "
               /\ \A c \in 9..12 : IsDigit(ts[c])
               /\ SubSeq(ts, 9, 12) =
                    <<DigitOf(dt.year \div 1000), DigitOf((dt.year \div 100) % 10),
                      DigitOf((dt.year \div 10) % 10), DigitOf(dt.year % 10)>>

C7_Witness ==
  \E m, n \in 1..Len(rows) :
    /\ YearOf(rows[m].path) = ThisYear
    /\ YearOf(rows[n].path) # ThisYear
    /\ rows[m].params[6][10] = ":"
    /\ rows[n].params[6][10] # ":"

(* C8: a directory with no entry after hidden-file filtering gives empty  *)
(* output in both formats, the run goes on without failing, and no        *)
(* maximum is taken over the empty sequence of children.                  *)
C8_EmptyDirectoryIsSilent ==
  (\A k \in 1..Len(args.files) : IsDir(args.files[k]) /\ Batch(args.files[k]) = {})
  => /\ pc # "failed"
     /\ out = <<>>

(* A header: a blank line, then the directory's path and a colon *)
HasHeader(path) ==
  \E n \in 1..Len(out) - 1 : out[n] = <<>> /\ out[n + 1] = PathText(path) \o <<":">>

(* C9: with more than one target every directory's listing is preceded by *)
(* a blank line and a 'path:' header; with exactly one target there is no *)
(* header.                                                                *)
C9_HeadersWithSeveralTargets ==
  pc = "done" =>
    \A k \in 1..Len(args.files) :
      IsDir(args.files[k]) => (HasHeader(args.files[k]) <=> Len(args.files) > 1)

Populated(info) ==
  /\ info.num_links # None
  /\ info.owner # None
  /\ info.group # None
  /\ info.size # None

(* C10: the link count, owner, group and size of an entry are populated   *)
(* by get_long_info before the width computation of main measures them    *)
(* and before a row is formatted from them.                               *)
C10_FieldsPopulatedBeforeRead ==
  /\ pc = "widths" => \A k \in 1..Len(files) : Populated(files[k])
  /\ \A n \in 1..Len(rows) : \A f \in 2..5 : rows[n].params[f] # <<"N","o","n","e">>

====
